---- MODULE Spec2Model ----
(***************************************************************************)
(* notify-future: a one-shot, cancel-aware hand-off of one value between a *)
(* producer handle and a consumer future, both layered over one            *)
(* Arc<Mutex<NotifyFutureState<RESULT>>>.                                  *)
(*                                                                         *)
(* The model follows src/src/lib.rs.  Every operation that takes the mutex *)
(* is two steps: lock_state (the guard is acquired) and the critical       *)
(* section (the body runs and the guard is released at the end of the      *)
(* scope).  set_complete has a third step, the waker.wake() call made      *)
(* after the guard's scope has ended.                                      *)
(*                                                                         *)
(* A Waker is a pair <<task, object>>: the task it wakes and the Waker      *)
(* object it is (its data and vtable pointers); a clone is the same object.*)
(* Waker::will_wake compares objects, so two separately built wakers of    *)
(* one task do not will_wake each other.  The executor is the environment: *)
(* it polls a task that is runnable (new, or woken) with a waker object of *)
(* its choice, and a task may also be polled without having been woken     *)
(* (the Future contract allows it; polling after Ready is the misuse the   *)
(* panics are there for).                                                  *)
(***************************************************************************)
EXTENDS Integers, Sequences, FiniteSets

\* ---------------------------------------------------------------- bounds
MaxProducers == 2      \* set_complete calls made through clones
MaxTasks == 2          \* tasks that may poll the consumer side
MaxExtraPolls == 2     \* polls of a task that was not woken
MaxChecks == 2         \* Notify::is_canceled calls
MaxWakerObjs == 2      \* distinct Waker objects an executor builds for one task

Producers == 1..MaxProducers
Tasks == 1..MaxTasks
Values == {1, 2}       \* the results passed by the tests; a result is only moved, never read
None == 0              \* Option::None, for the result
WakerObjs == 1..MaxWakerObjs
Wakers == Tasks \X WakerObjs
NoWaker == <<0, 0>>    \* Option::None, for a waker

VARIABLES
    mode,        \* "legacy": NotifyFuture and its clones; "split": Notify + NotifyWaiter
    state,       \* the NotifyFutureState behind the mutex
    lock,        \* who holds the MutexGuard: <<"none",0>>, <<"prod",p>>, <<"task",t>>, ...
    poisoned,    \* the mutex's poison flag (a holder panicked)
    ppc,         \* per producer: position inside set_complete
    pval,        \* per producer: the `result` argument of its call (None outside the
                 \*   critical section: it is moved into the state or dropped there)
    pwaker,      \* per producer: the local `waker` of set_complete (lines 24, 35)
    tpc,         \* per task: "out" of poll, or "locked" inside it
    tstatus,     \* per task: what its last poll ended in ("lock_panicked": lock_state panicked)
    runnable,    \* per task: the executor has it scheduled (new or woken)
    extra,       \* polls made so far of tasks that were not runnable
    waiter,      \* the NotifyWaiter: "alive", "dropping" (in Drop::drop), "dropped"
    cpc,         \* Notify::is_canceled: "idle" or "locked"
    checks,      \* Notify::is_canceled calls made so far
    chkDropDone, \* history: had the waiter's drop finished when is_canceled locked
    obs,         \* history: <<value returned by is_canceled, chkDropDone>>
    firstLock,   \* history: <<p, v>> of the first set_complete call to take the lock
    lateVals,    \* history: the values of the calls that took the early return
    accepted,    \* history: <<p, v, lastPending>> of the calls that stored a value
    lastPending, \* history: cx.waker() of the poll that most recently returned Pending
    cloned,      \* history: the most recent poll stored cx.waker().clone()
    wakeLog,     \* history: <<p, w>>, producer p invoked the waker w
    readyLog,    \* history: <<t, v, R>>, a poll of task t returned Ready(v) when the
                 \*   set_complete calls of the producers in R had returned
    droppedEarly, \* history: the waiter's drop ran before any call was accepted
    dropOrder    \* history: "drop_first" / "notify_first", by who took the mutex first

vars == <<mode, state, lock, poisoned, ppc, pval, pwaker, tpc, tstatus, runnable,
          extra, waiter, cpc, checks, chkDropDone, obs, firstLock, lateVals,
          accepted, lastPending, cloned, wakeLog, readyLog, droppedEarly, dropOrder>>

\* ------------------------------------------------------ the shared state
\* NotifyFutureState::new: all four fields empty / false.
NotifyFutureState_new ==
    [waker |-> NoWaker, result |-> None, is_completed |-> FALSE, is_canceled |-> FALSE]

Free == <<"none", 0>>

\* Mutant: lock().unwrap(), which panics on a poisoned mutex.
lock_state_unwrap(isPoisoned) == IF isPoisoned THEN "panic" ELSE "guard"

\* lock_state: lock().unwrap_or_else(|poisoned| poisoned.into_inner()).
\* A poisoned mutex still yields the guard.
lock_state(isPoisoned) == "guard"

\* Mutant: the early return forgets the canceled flag.
set_complete_returns_early_ignoring_cancel(s) == s.is_completed

\* Mutant: the early return forgets the completed flag.
set_complete_returns_early_ignoring_completed(s) == s.is_canceled

\* Mutant: the early return is missing.
set_complete_never_returns_early(s) == FALSE

\* set_complete, line 26: the early return.
set_complete_returns_early(s) == s.is_completed \/ s.is_canceled

\* Mutant: the waker is cloned out of the state instead of taken.
set_complete_store_keeps_waker(s, v) ==
    [s EXCEPT !.result = v, !.is_completed = TRUE]

\* Mutant: the value is stored but is_completed is not set.
set_complete_store_without_flag(s, v) ==
    [s EXCEPT !.result = v, !.waker = NoWaker]

\* set_complete, lines 30-32: store, mark completed, take the waker.
set_complete_store(s, v) ==
    [s EXCEPT !.result = v, !.is_completed = TRUE, !.waker = NoWaker]

\* Mutant: the waker is cleared instead of taken, so nobody is woken.
set_complete_taken_nothing(s) == NoWaker

\* set_complete, line 32: the value of state.waker.take().
set_complete_taken(s) == s.waker

\* Mutant: the guard is not scoped to the block, so it lives until the
\* function returns and is still held while the taken waker is invoked.
set_complete_guard_lives_to_return(p, w) ==
    IF w # NoWaker THEN <<"prod", p>> ELSE Free

\* set_complete, lines 24-33: the holder of the mutex once the block that
\* declares the guard has ended (p the caller, w the waker the block yields).
set_complete_guard_after_block(p, w) == Free

\* Mutant: the wrong flag is read.
NotifyFutureState_is_canceled_wrong_field(s) == s.is_completed

\* NotifyFutureState::is_canceled.
NotifyFutureState_is_canceled(s) == s.is_canceled

\* Mutant: the flag is taken (read and reset) instead of copied.
NotifyFutureState_is_canceled_takes_flag(s) == [s EXCEPT !.is_canceled = FALSE]

\* NotifyFutureState::is_canceled(&self): the state the call leaves behind.
NotifyFutureState_is_canceled_leaves(s) == s

\* Waker::will_wake: the two wakers are the same object (same data and
\* vtable pointers).  Wakers of different tasks, and separately built
\* wakers of one task, give false.
will_wake(stored, cx) == stored = cx

\* Mutant: a stored waker is never replaced (first registrant wins).
poll_register_keeps_first(s, cx) ==
    IF s.waker = NoWaker
    THEN [s EXCEPT !.waker = cx]
    ELSE s

\* Mutant: every poll stores a fresh clone of its waker.
poll_stores_waker_always(s, cx) == TRUE

\* poll, lines 93 and 152: the condition under which the waker is stored.
poll_stores_waker(s, cx) == s.waker = NoWaker \/ ~will_wake(s.waker, cx)

\* poll, lines 93-95 and 152-154: store a clone of cx.waker() unless the
\* stored waker will_wake it.
poll_register(s, cx) ==
    IF poll_stores_waker(s, cx)
    THEN [s EXCEPT !.waker = cx]
    ELSE s

\* Mutant: the presence of the value is tested instead of is_completed, so a
\* poll after the value was taken suspends again.
poll_outcome_tests_result(s) ==
    IF s.is_completed /\ s.result # None THEN "ready" ELSE "pending"

\* poll, lines 85-91 and 148-150: what a poll ends in.
\*   completed, value present  -> Ready(value)
\*   completed, value taken    -> panic (explicit panic! / unwrap of None)
\*   not completed             -> Pending
poll_outcome(s) ==
    IF s.is_completed
    THEN IF s.result # None THEN "ready" ELSE "panic"
    ELSE "pending"

\* Mutant: a resolved poll re-arms the state for another exchange.
poll_state_rearms(s, cx) ==
    IF poll_outcome(s) = "ready" THEN [s EXCEPT !.result = None, !.is_completed = FALSE]
    ELSE IF poll_outcome(s) = "panic" THEN s
    ELSE poll_register(s, cx)

\* Mutant: a resolved poll copies the value out instead of taking it.
poll_state_leaves_value(s, cx) ==
    IF poll_outcome(s) = "pending" THEN poll_register(s, cx) ELSE s

\* poll: the state the critical section leaves behind.
poll_state(s, cx) ==
    IF poll_outcome(s) = "ready" THEN [s EXCEPT !.result = None]
    ELSE IF poll_outcome(s) = "panic" THEN s
    ELSE poll_register(s, cx)

\* Mutant: the drop cancels only when a waker was registered.
drop_state_cancels_only_waiting(s) ==
    [s EXCEPT !.waker = NoWaker,
              !.is_canceled = IF s.is_completed \/ s.waker = NoWaker THEN @ ELSE TRUE]

\* Mutant: the drop cancels unless the value was already taken.
drop_state_cancels_untaken(s) ==
    [s EXCEPT !.waker = NoWaker,
              !.is_canceled = IF s.is_completed /\ s.result = None THEN @ ELSE TRUE]

\* Mutant: the drop cancels without looking at is_completed.
drop_state_cancels_always(s) ==
    [s EXCEPT !.waker = NoWaker, !.is_canceled = TRUE]

\* Drop for NotifyWaiter, lines 135-139.
drop_state(s) ==
    [s EXCEPT !.waker = NoWaker,
              !.is_canceled = IF s.is_completed THEN @ ELSE TRUE]

\* ------------------------------------------------------------------ Init
Init ==
    /\ mode \in {"legacy", "split"}
    /\ state = NotifyFutureState_new
    /\ lock = Free
    /\ poisoned = FALSE
    /\ ppc = [p \in Producers |-> "idle"]
    /\ pval = [p \in Producers |-> None]
    /\ pwaker = [p \in Producers |-> NoWaker]
    /\ tpc = [t \in Tasks |-> "out"]
    /\ tstatus = [t \in Tasks |-> "new"]
    /\ runnable = [t \in Tasks |-> TRUE]
    /\ extra = 0
    /\ waiter = "alive"
    /\ cpc = "idle"
    /\ checks = 0
    /\ chkDropDone = FALSE
    /\ obs = {}
    /\ firstLock = <<>>
    /\ lateVals = {}
    /\ accepted = <<>>
    /\ lastPending = NoWaker
    /\ cloned = FALSE
    /\ wakeLog = <<>>
    /\ readyLog = <<>>
    /\ droppedEarly = FALSE
    /\ dropOrder = "none"

\* ------------------------------------------------------------- producers
\* NotifyFutureState::set_complete, line 25: lock_state.
set_complete_lock(p, v) ==
    /\ ppc[p] = "idle"
    /\ lock = Free
    /\ pval' = [pval EXCEPT ![p] = v]
    /\ IF lock_state(poisoned) = "guard"
       THEN /\ lock' = <<"prod", p>>
            /\ ppc' = [ppc EXCEPT ![p] = "locked"]
            /\ firstLock' = IF firstLock = <<>> THEN <<p, v>> ELSE firstLock
       ELSE /\ ppc' = [ppc EXCEPT ![p] = "panicked"]
            /\ UNCHANGED <<lock, firstLock>>
    /\ UNCHANGED <<mode, state, poisoned, pwaker, tpc, tstatus, runnable, extra,
                   waiter, cpc, checks, chkDropDone, obs, lateVals, accepted, lastPending, cloned,
                   wakeLog, readyLog, droppedEarly, dropOrder>>

\* NotifyFuture::set_complete(&self, result): any clone, any thread.
NotifyFuture_set_complete(p, v) ==
    /\ mode = "legacy"
    /\ set_complete_lock(p, v)

\* Notify::notify(self, result): consumes the only Notify, so it is called
\* once and no &self borrow (is_canceled) is outstanding.
Notify_notify(v) ==
    /\ mode = "split"
    /\ cpc = "idle"
    /\ set_complete_lock(1, v)

\* NotifyFutureState::set_complete, lines 26-33: the critical section; the
\* guard is dropped at the end of the block.
set_complete_critical(p) ==
    /\ ppc[p] = "locked"
    /\ lock = <<"prod", p>>
    /\ IF set_complete_returns_early(state)
       THEN /\ ppc' = [ppc EXCEPT ![p] = "done"]
            /\ lock' = Free
            /\ lateVals' = lateVals \cup {pval[p]}
            /\ UNCHANGED <<state, pwaker, accepted>>
       ELSE /\ state' = set_complete_store(state, pval[p])
            /\ lock' = set_complete_guard_after_block(p, set_complete_taken(state))
            /\ pwaker' = [pwaker EXCEPT ![p] = set_complete_taken(state)]
            /\ accepted' = Append(accepted, <<p, pval[p], lastPending>>)
            /\ ppc' = [ppc EXCEPT ![p] =
                         IF set_complete_taken(state) # NoWaker THEN "wake" ELSE "done"]
            /\ UNCHANGED lateVals
    /\ pval' = [pval EXCEPT ![p] = None]
    /\ UNCHANGED <<mode, poisoned, tpc, tstatus, runnable, extra, waiter,
                   cpc, checks, chkDropDone, obs, firstLock, lastPending, cloned,
                   wakeLog, readyLog, droppedEarly, dropOrder>>

\* NotifyFutureState::set_complete, lines 35-38: waker.wake(), which hands
\* the task back to the executor, and the return, which drops whatever the
\* function still owns.
set_complete_wake(p) ==
    /\ ppc[p] = "wake"
    /\ ppc' = [ppc EXCEPT ![p] = "done"]
    /\ runnable' = [runnable EXCEPT ![pwaker[p][1]] = TRUE]
    /\ wakeLog' = Append(wakeLog, <<p, pwaker[p]>>)
    /\ lock' = IF lock = <<"prod", p>> THEN Free ELSE lock
    /\ UNCHANGED <<mode, state, poisoned, pval, pwaker, tpc, tstatus, extra,
                   waiter, cpc, checks, chkDropDone, obs, firstLock, lateVals, accepted,
                   lastPending, cloned, readyLog, droppedEarly, dropOrder>>

\* Notify::is_canceled, line 117: lock_state.  Needs &self, so the Notify
\* has not been moved into notify.
Notify_is_canceled_lock ==
    /\ mode = "split"
    /\ cpc = "idle"
    /\ ppc[1] = "idle"
    /\ checks < MaxChecks
    /\ lock = Free
    /\ checks' = checks + 1
    /\ IF lock_state(poisoned) = "guard"
       THEN /\ lock' = <<"chk", 0>>
            /\ cpc' = "locked"
            /\ chkDropDone' = (waiter = "dropped")
       ELSE /\ cpc' = "panicked"
            /\ UNCHANGED <<lock, chkDropDone>>
    /\ UNCHANGED <<mode, state, poisoned, ppc, pval, pwaker, tpc, tstatus, runnable,
                   extra, waiter, obs, firstLock, lateVals, accepted, lastPending, cloned, wakeLog,
                   readyLog, droppedEarly, dropOrder>>

\* Notify::is_canceled, line 117: read the flag, drop the temporary guard.
Notify_is_canceled_read ==
    /\ cpc = "locked"
    /\ lock = <<"chk", 0>>
    /\ lock' = Free
    /\ cpc' = "idle"
    /\ obs' = obs \cup {<<NotifyFutureState_is_canceled(state), chkDropDone>>}
    /\ state' = NotifyFutureState_is_canceled_leaves(state)
    /\ UNCHANGED <<mode, poisoned, ppc, pval, pwaker, tpc, tstatus, runnable,
                   extra, waiter, checks, chkDropDone, firstLock, lateVals, accepted,
                   lastPending, cloned, wakeLog, readyLog, droppedEarly, dropOrder>>

\* -------------------------------------------------------------- consumer
\* A poll may start on a handle that exists and is not being polled:
\* NotifyWaiter is one object polled through Pin<&mut Self>; every task of
\* the legacy variant polls its own clone of NotifyFuture.
poll_may_start(t) ==
    /\ tpc[t] = "out"
    /\ tstatus[t] \notin {"panicked", "lock_panicked"}
    /\ mode = "split" => (waiter = "alive" /\ \A u \in Tasks : tpc[u] = "out")

\* poll, lines 84 and 147: lock_state.
poll_lock(t) ==
    /\ poll_may_start(t)
    /\ lock = Free
    /\ runnable' = [runnable EXCEPT ![t] = FALSE]
    /\ IF lock_state(poisoned) = "guard"
       THEN /\ lock' = <<"task", t>>
            /\ tpc' = [tpc EXCEPT ![t] = "locked"]
            /\ UNCHANGED tstatus
       ELSE /\ tstatus' = [tstatus EXCEPT ![t] = "lock_panicked"]
            /\ UNCHANGED <<lock, tpc>>
    /\ UNCHANGED <<mode, state, poisoned, ppc, pval, pwaker, waiter, cpc, checks,
                   chkDropDone, obs, firstLock, lateVals, accepted, lastPending, cloned, wakeLog,
                   readyLog, droppedEarly, dropOrder>>

\* The executor polls a task it has scheduled.
executor_poll(t) ==
    /\ runnable[t]
    /\ poll_lock(t)
    /\ UNCHANGED extra

\* A poll of a task nobody woke (a combinator re-polling, or a second await).
extra_poll(t) ==
    /\ ~runnable[t]
    /\ extra < MaxExtraPolls
    /\ extra' = extra + 1
    /\ poll_lock(t)

\* poll, lines 85-96 and 148-155: the critical section; cx is the waker of
\* the Context the executor polls task t with, one of the task's Waker
\* objects.  A panic unwinds through the guard, which poisons the mutex and
\* releases it.
poll_critical(t, cx) ==
    /\ tpc[t] = "locked"
    /\ lock = <<"task", t>>
    /\ lock' = Free
    /\ tpc' = [tpc EXCEPT ![t] = "out"]
    /\ state' = poll_state(state, cx)
    /\ tstatus' = [tstatus EXCEPT ![t] =
                     IF poll_outcome(state) = "panic" THEN "panicked"
                     ELSE poll_outcome(state)]
    /\ poisoned' = (poisoned \/ poll_outcome(state) = "panic")
    /\ readyLog' = IF poll_outcome(state) = "ready"
                   THEN Append(readyLog,
                               <<t, state.result, {p \in Producers : ppc[p] = "done"}>>)
                   ELSE readyLog
    /\ lastPending' = IF poll_outcome(state) = "pending" THEN cx ELSE lastPending
    /\ cloned' = (poll_outcome(state) = "pending" /\ poll_stores_waker(state, cx))
    /\ UNCHANGED <<mode, ppc, pval, pwaker, runnable, extra, waiter, cpc, checks,
                   chkDropDone, obs, firstLock, lateVals, accepted, wakeLog, droppedEarly, dropOrder>>

\* The wakers the executor may pass to a poll of task t.  poll only tests
\* whether cx.waker() is the stored object, so objects are named relative to
\* the stored waker: any of the task's objects when the stored waker is one
\* of them, and the task's object 1 when it is not (cx.waker() is then a
\* different object whichever one it is).
poll_contexts(s, t) ==
    IF s.waker # NoWaker /\ s.waker[1] = t
    THEN {<<t, o>> : o \in WakerObjs}
    ELSE {<<t, 1>>}

\* Future for NotifyFuture::poll (lines 83-97).
NotifyFuture_poll(t) ==
    /\ mode = "legacy"
    /\ \E cx \in poll_contexts(state, t) : poll_critical(t, cx)

\* Future for NotifyWaiter::poll (lines 146-156).
NotifyWaiter_poll(t) ==
    /\ mode = "split"
    /\ \E cx \in poll_contexts(state, t) : poll_critical(t, cx)

\* Drop for NotifyWaiter, line 135: lock_state.  drop takes &mut self, so no
\* poll of the waiter is in progress.
NotifyWaiter_drop_lock ==
    /\ mode = "split"
    /\ waiter = "alive"
    /\ \A t \in Tasks : tpc[t] = "out"
    /\ lock = Free
    /\ IF lock_state(poisoned) = "guard"
       THEN /\ lock' = <<"drop", 0>>
            /\ waiter' = "dropping"
            /\ dropOrder' = IF firstLock = <<>> THEN "drop_first" ELSE "notify_first"
       ELSE /\ waiter' = "panicked"
            /\ UNCHANGED <<lock, dropOrder>>
    /\ UNCHANGED <<mode, state, poisoned, ppc, pval, pwaker, tpc, tstatus, runnable,
                   extra, cpc, checks, chkDropDone, obs, firstLock, lateVals, accepted,
                   lastPending, cloned, wakeLog, readyLog, droppedEarly>>

\* Drop for NotifyWaiter, lines 136-140.
NotifyWaiter_drop ==
    /\ waiter = "dropping"
    /\ lock = <<"drop", 0>>
    /\ lock' = Free
    /\ waiter' = "dropped"
    /\ state' = drop_state(state)
    /\ droppedEarly' = (accepted = <<>>)
    /\ UNCHANGED dropOrder
    /\ UNCHANGED <<mode, poisoned, ppc, pval, pwaker, tpc, tstatus, runnable, extra,
                   cpc, checks, chkDropDone, obs, firstLock, lateVals, accepted, lastPending, cloned,
                   wakeLog, readyLog>>

\* ------------------------------------------------------------------ Next
Next ==
    \/ \E p \in Producers, v \in Values : NotifyFuture_set_complete(p, v)
    \/ \E v \in Values : Notify_notify(v)
    \/ \E p \in Producers : set_complete_critical(p)
    \/ \E p \in Producers : set_complete_wake(p)
    \/ Notify_is_canceled_lock
    \/ Notify_is_canceled_read
    \/ \E t \in Tasks : executor_poll(t)
    \/ \E t \in Tasks : extra_poll(t)
    \/ \E t \in Tasks : NotifyFuture_poll(t)
    \/ \E t \in Tasks : NotifyWaiter_poll(t)
    \/ NotifyWaiter_drop_lock
    \/ NotifyWaiter_drop

Spec == Init /\ [][Next]_vars

TypeOK ==
    /\ mode \in {"legacy", "split"}
    /\ state \in [waker : Wakers \cup {NoWaker}, result : Values \cup {None},
                  is_completed : BOOLEAN, is_canceled : BOOLEAN]
    /\ poisoned \in BOOLEAN
    /\ ppc \in [Producers -> {"idle", "locked", "wake", "done", "panicked"}]
    /\ tpc \in [Tasks -> {"out", "locked"}]
    /\ cloned \in BOOLEAN
    /\ tstatus \in [Tasks -> {"new", "pending", "ready", "panicked", "lock_panicked"}]
    /\ runnable \in [Tasks -> BOOLEAN]
    /\ waiter \in {"alive", "dropping", "dropped", "panicked"}
    /\ cpc \in {"idle", "locked", "panicked"}
    /\ extra \in 0..MaxExtraPolls
    /\ checks \in 0..MaxChecks

\* --------------------------------------------------------------- liveness
\* The exchange of the delivery scenario: the consumer is never dropped.
NextLive ==
    \/ \E p \in Producers, v \in Values : NotifyFuture_set_complete(p, v)
    \/ \E v \in Values : Notify_notify(v)
    \/ \E p \in Producers : set_complete_critical(p)
    \/ \E p \in Producers : set_complete_wake(p)
    \/ Notify_is_canceled_lock
    \/ Notify_is_canceled_read
    \/ \E t \in Tasks : executor_poll(t)
    \/ \E t \in Tasks : extra_poll(t)
    \/ \E t \in Tasks : NotifyFuture_poll(t)
    \/ \E t \in Tasks : NotifyWaiter_poll(t)

\* The producers call, every thread inside a critical section or about to
\* call wake() runs on, and the executor polls each task it has scheduled.
\* Polls of tasks nobody woke, and is_canceled calls, need not happen.
Fairness ==
    /\ \A p \in Producers : WF_vars(\E v \in Values : NotifyFuture_set_complete(p, v))
    /\ WF_vars(\E v \in Values : Notify_notify(v))
    /\ \A p \in Producers : WF_vars(set_complete_critical(p))
    /\ \A p \in Producers : WF_vars(set_complete_wake(p))
    /\ WF_vars(Notify_is_canceled_read)
    /\ \A t \in Tasks : WF_vars(executor_poll(t))
    /\ \A t \in Tasks : WF_vars(NotifyFuture_poll(t))
    /\ \A t \in Tasks : WF_vars(NotifyWaiter_poll(t))

LiveSpec == Init /\ [][NextLive]_vars /\ Fairness

\* ----------------------------------------------------------------- claims
Range(seq) == {seq[i] : i \in 1..Len(seq)}

\* C1. First-write-wins single delivery: every value a consumer poll
\* resolved with is the value of the first set_complete call that acquired
\* the lock, never the value of a later call.
C1_FirstWriteWins ==
    \A r \in Range(readyLog) : firstLock # <<>> /\ r[2] = firstLock[2]

\* Two calls with different values have both returned and a consumer resolved.
C1_Witness ==
    /\ \A p \in Producers : ppc[p] = "done"
    /\ \E v \in lateVals : v # firstLock[2]
    /\ readyLog # <<>>
    /\ readyLog[1][3] = Producers

\* C2. Cancellation visibility: once the NotifyWaiter was dropped before any
\* call was accepted, is_canceled is true in every later state (a later
\* notify included) and every Notify::is_canceled() call made after the drop
\* returned true.
C2_CancellationVisible ==
    droppedEarly =>
        /\ state.is_canceled
        /\ \A o \in obs : o[2] => o[1]

\* The waiter was dropped first, is_canceled() was called and notify returned.
C2_Witness ==
    /\ droppedEarly
    /\ <<TRUE, TRUE>> \in obs
    /\ ppc[1] = "done"

\* C3. Wake correctness: when an accepted set_complete call has returned and
\* some poll had returned Pending before the call was accepted, that call
\* invoked the waker of the task whose poll returned Pending most recently.
C3_NoLostWakeup ==
    \A a \in Range(accepted) :
        (a[3] # NoWaker /\ ppc[a[1]] = "done") => <<a[1], a[3]>> \in Range(wakeLog)

\* Two tasks were suspended in turn and the accepted call woke the later one.
C3_Witness ==
    \E a \in Range(accepted) :
        /\ a[3] # NoWaker
        /\ ppc[a[1]] = "done"
        /\ <<a[1], a[3]>> \in Range(wakeLog)
        /\ \E t \in Tasks : t # a[3][1] /\ tstatus[t] = "pending"

\* C4. End-to-end delivery: with the consumer never dropped, the producers
\* calling and the executor polling every task it has scheduled, some poll
\* eventually returns Ready, and the value is the one the accepted call passed.
C4_EventuallyDelivered ==
    <>(/\ readyLog # <<>>
       /\ accepted # <<>>
       /\ readyLog[1][2] = accepted[1][2])

\* A task was suspended, the producer woke it, and its next poll resolved.
C4_Witness ==
    /\ wakeLog # <<>>
    /\ readyLog # <<>>
    /\ readyLog[1][1] = wakeLog[1][2][1]
    /\ readyLog[1][2] = accepted[1][2]
    /\ extra = 0

\* C5. Exactly-once resolution: a poll made after some poll returned Ready
\* ends in a panic; it returns neither Ready again nor Pending.
C5_SecondPollPanics ==
    [][\A t \in Tasks :
          (tpc[t] = "locked" /\ tpc'[t] = "out" /\ readyLog # <<>>)
              => (tstatus'[t] = "panicked" /\ readyLog' = readyLog)]_vars

\* The task that resolved was polled again and panicked.
C5_Witness ==
    /\ Len(readyLog) = 1
    /\ tstatus[readyLog[1][1]] = "panicked"
    /\ poisoned

\* C6. No resurrection: a set_complete critical section run on a canceled
\* state returns without panicking and without a wake, stores no value and
\* leaves the state canceled and not completed.
C6_NoResurrection ==
    [][\A p \in Producers :
          (state.is_canceled /\ ppc[p] = "locked" /\ ppc'[p] # "locked")
              => /\ ppc'[p] = "done"
                 /\ state'.result = None
                 /\ ~state'.is_completed
                 /\ state'.is_canceled
                 /\ wakeLog' = wakeLog]_vars

\* notify was called after the cancellation and has returned.
C6_Witness ==
    /\ droppedEarly
    /\ ppc[1] = "done"
    /\ state.is_canceled
    /\ state.result = None

\* C7. Happens-before of complete: once an accepted set_complete call has
\* returned and no poll has resolved yet, the next consumer poll returns
\* Ready with the accepted value, not Pending.
C7_CompleteVisibleToNextPoll ==
    [][\A t \in Tasks :
          (/\ tpc[t] = "locked"
           /\ tpc'[t] = "out"
           /\ readyLog = <<>>
           /\ \E a \in Range(accepted) : ppc[a[1]] = "done")
              => /\ tstatus'[t] = "ready"
                 /\ Len(readyLog') = 1
                 /\ readyLog'[1][1] = t
                 /\ readyLog'[1][2] = accepted[1][2]]_vars

\* A poll resolved after the accepted call had returned.
C7_Witness ==
    /\ readyLog # <<>>
    /\ accepted # <<>>
    /\ accepted[1][1] \in readyLog[1][3]

\* C8. Notify::is_canceled() returns true exactly when the paired
\* NotifyWaiter's drop had run its critical section when is_canceled took the
\* lock, and false while the waiter is alive.
C8_IsCanceledExact ==
    mode = "split" => \A o \in obs : o[1] = o[2]

\* is_canceled() was called before the drop and again after it.
C8_Witness ==
    /\ mode = "split"
    /\ obs = {<<FALSE, FALSE>>, <<TRUE, TRUE>>}

\* C9. Late cancellation is a silent no-op: dropping the NotifyWaiter after a
\* call was accepted does not panic, and leaves is_completed true,
\* is_canceled false and the stored value as it was.
C9_LateDropNoOp ==
    [][/\ (waiter = "alive" /\ waiter' # "alive" /\ accepted # <<>>)
            => waiter' = "dropping"
       /\ (waiter = "dropping" /\ waiter' # "dropping" /\ accepted # <<>>)
            => /\ waiter' = "dropped"
               /\ state'.is_completed
               /\ ~state'.is_canceled
               /\ state'.result = state.result]_vars

\* The waiter was dropped after the completion, the value still stored.
C9_Witness ==
    /\ waiter = "dropped"
    /\ ~droppedEarly
    /\ accepted # <<>>
    /\ state.result # None

\* C10. Legacy combined handle: once a value was completed and one task took
\* it, no other awaiting task is left suspended without having been woken;
\* the misuse reaches it as a panic on its next poll.
C10_MisuseSurfaced ==
    (/\ mode = "legacy"
     /\ readyLog # <<>>
     /\ \A p \in Producers : ppc[p] \notin {"locked", "wake"})
        => \A t \in Tasks :
              tstatus[t] = "pending" => (runnable[t] \/ tpc[t] = "locked")

\* C11. is_completed and is_canceled are never both true.
C11_NeverBothFlags ==
    ~(state.is_completed /\ state.is_canceled)

\* Both the notify call and the waiter's drop have run on the same state.
C11_Witness ==
    /\ mode = "split"
    /\ waiter = "dropped"
    /\ ppc[1] = "done"
    /\ lateVals # {}

\* C12. Monotonic one-shot state machine: neither flag ever reverts; the
\* only step that sets is_completed is an accepted set_complete critical
\* section taken from the empty state, and the only step that sets
\* is_canceled is the NotifyWaiter drop taken from the empty state.
C12_Monotonic ==
    [][/\ state.is_completed => state'.is_completed
       /\ state.is_canceled => state'.is_canceled
       /\ (~state.is_completed /\ state'.is_completed)
            => /\ ~state.is_canceled
               /\ \E p \in Producers : ppc[p] = "locked" /\ ppc'[p] \in {"wake", "done"}
               /\ Len(accepted') = Len(accepted) + 1
       /\ (~state.is_canceled /\ state'.is_canceled)
            => /\ ~state.is_completed
               /\ waiter = "dropping"
               /\ waiter' = "dropped"]_vars

\* Completed, consumed and then dropped: the state is still completed.
C12_Witness ==
    /\ state.is_completed
    /\ ~state.is_canceled
    /\ readyLog # <<>>
    /\ waiter = "dropped"

\* C13. The stored result is present exactly when is_completed is true and
\* no consumer poll has returned Ready yet.
C13_ResultPresence ==
    (state.result # None) <=> (state.is_completed /\ readyLog = <<>>)

\* The value was delivered and taken: completed, and the result empty again.
C13_Witness ==
    /\ state.is_completed
    /\ readyLog # <<>>
    /\ state.result = None
    /\ lateVals # {}

\* C14. set_complete invokes the captured waker only after releasing the
\* state lock: while a producer is at waker.wake() it does not hold the
\* mutex, and the state it leaves is completed, so a poll made from inside
\* wake() can take the lock and, the value not yet taken, returns Ready with
\* the accepted value.
C14_WakeOutsideLock ==
    \A p \in Producers :
        ppc[p] = "wake" =>
            /\ lock # <<"prod", p>>
            /\ poll_outcome(state) # "pending"
            /\ readyLog = <<>> =>
                  /\ poll_outcome(state) = "ready"
                  /\ state.result = accepted[1][2]

\* A producer is about to call wake(), the mutex free for the woken task.
C14_Witness ==
    \E p \in Producers :
        /\ ppc[p] = "wake"
        /\ lock = Free
        /\ tstatus[pwaker[p][1]] = "pending"
        /\ state.result # None

\* C15 as stated: a poll that returns Pending stores its waker exactly when
\* none is stored or the stored one wakes another task, and leaves the
\* state alone whenever the stored waker already wakes the polling task.
\* The code decides with Waker::will_wake, which is false for two separately
\* built wakers of one task, so a re-poll with a fresh waker object replaces
\* a stored waker that wakes the same task.
C15_SameTaskLeftUnchanged ==
    /\ [](\A w \in Range(wakeLog) :
             \E a \in Range(accepted) : a[1] = w[1] /\ a[3] = w[2])
    /\ [][\A t \in Tasks :
             (tpc[t] = "locked" /\ tpc'[t] = "out" /\ tstatus'[t] = "pending")
                 => /\ state'.waker[1] = t
                    /\ (state.waker = NoWaker \/ state.waker[1] # t)
                           => cloned'
                    /\ (state.waker # NoWaker /\ state.waker[1] = t)
                           => (~cloned' /\ state' = state)]_vars

\* C15, amended. Waiter registration is last-registrant-wins: a poll that
\* returns Pending stores a clone of its cx.waker() exactly when none is
\* stored or the stored one is not that same Waker object (always so for a
\* waker of another task, and also for a separately built waker of the
\* polling task), and leaves the state alone when the stored waker is that
\* object; afterwards the single stored waker is the poll's own and wakes
\* the polling task.  A waker that was replaced is not invoked: every wake
\* goes to the waker registered last before the call was accepted.
C15_LastRegistrantWins ==
    /\ [](\A w \in Range(wakeLog) :
             \E a \in Range(accepted) : a[1] = w[1] /\ a[3] = w[2])
    /\ [][\A t \in Tasks :
             (tpc[t] = "locked" /\ tpc'[t] = "out" /\ tstatus'[t] = "pending")
                 => /\ state'.waker = lastPending'
                    /\ state'.waker[1] = t
                    /\ (state.waker = NoWaker \/ state.waker[1] # t)
                           => cloned'
                    /\ (state.waker # lastPending') <=> cloned'
                    /\ (state.waker = lastPending')
                           => (~cloned' /\ state' = state)]_vars

\* One task alone was polled three times, each poll returning Pending: the
\* first stored a clone, one was given a separately built waker (object 2)
\* and stored it in place of the first, and the last found its own object
\* stored and stored nothing; the accepted call then woke that object.
C15_Witness ==
    /\ wakeLog # <<>>
    /\ extra = 2
    /\ ~cloned
    /\ \E t \in Tasks :
          /\ wakeLog[1][2] = <<t, 2>>
          /\ tstatus[t] = "pending"
          /\ \A u \in Tasks \ {t} : tstatus[u] = "new"
    /\ \A t \in Tasks : tpc[t] = "out"

\* C16. Poisoned lock is recoverable: the poll that panics inside its
\* critical section releases the mutex and leaves the four fields as they
\* were; afterwards no set_complete, is_canceled, poll or drop panics in
\* lock_state, and the drop of the waiter can take the free mutex.
C16_PoisonRecoverable ==
    /\ [](/\ \A p \in Producers : ppc[p] # "panicked"
          /\ \A t \in Tasks : tstatus[t] # "lock_panicked"
          /\ cpc # "panicked"
          /\ waiter # "panicked"
          /\ (/\ poisoned
              /\ mode = "split"
              /\ lock = Free
              /\ waiter = "alive") => ENABLED NotifyWaiter_drop_lock)
    /\ [][(~poisoned /\ poisoned') => (state' = state /\ lock' = Free)]_vars

\* After the panic of a second poll the waiter was dropped through the
\* poisoned mutex, and the completed state is as the poll left it.
C16_Witness ==
    /\ poisoned
    /\ mode = "split"
    /\ waiter = "dropped"
    /\ state.is_completed
    /\ ~state.is_canceled

\* C17. Terminal states hold no waker: whenever is_completed or is_canceled
\* is true the stored waker is empty.
C17_TerminalNoWaker ==
    (state.is_completed \/ state.is_canceled) => state.waker = NoWaker

\* A task had registered its waker and the state was then canceled.
C17_Witness ==
    /\ state.is_canceled
    /\ lastPending # NoWaker
    /\ state.waker = NoWaker

\* C18. Race between completion and cancellation is atomic: once one notify
\* and the drop of the paired waiter have both run, the state is the one of
\* a sequential order.  notify took the mutex first: completed, not
\* canceled, the value stored or consumed.  The drop took it first:
\* canceled, not completed, no value stored.
C18_RaceIsAtomic ==
    (mode = "split" /\ ppc[1] = "done" /\ waiter = "dropped") =>
        \/ /\ dropOrder = "notify_first"
           /\ state.is_completed
           /\ ~state.is_canceled
           /\ accepted # <<>>
           /\ \/ state.result = accepted[1][2]
              \/ /\ state.result = None
                 /\ readyLog # <<>>
                 /\ readyLog[1][2] = accepted[1][2]
        \/ /\ dropOrder = "drop_first"
           /\ ~state.is_completed
           /\ state.is_canceled
           /\ state.result = None
           /\ readyLog = <<>>

\* notify won the race against the drop and the value is still stored.
C18_Witness ==
    /\ mode = "split"
    /\ ppc[1] = "done"
    /\ waiter = "dropped"
    /\ dropOrder = "notify_first"
    /\ state.result # None

\* C19. At most one wake per exchange: a waker is invoked at most once, and
\* only by the set_complete call that was accepted; rejected calls and the
\* waiter's drop invoke none.
C19_AtMostOneWake ==
    /\ Len(wakeLog) <= 1
    /\ \A w \in Range(wakeLog) : accepted # <<>> /\ w[1] = accepted[1][1]

\* One wake happened, and a rejected call has returned as well.
C19_Witness ==
    /\ Len(wakeLog) = 1
    /\ lateVals # {}
    /\ \A p \in Producers : ppc[p] = "done"

\* C20. Frame conditions of the read-side operations: a poll that returns
\* Pending changes at most the stored waker; Notify::is_canceled() changes
\* none of the four fields.
C20_ReadSideFrame ==
    [][/\ \A t \in Tasks :
             (tpc[t] = "locked" /\ tpc'[t] = "out" /\ tstatus'[t] = "pending")
                 => /\ state'.result = state.result
                    /\ state'.is_completed = state.is_completed
                    /\ state'.is_canceled = state.is_canceled
       /\ (cpc = "locked" /\ cpc' = "idle") => state' = state]_vars

\* is_canceled() has read a canceled state, after a poll had returned Pending.
C20_Witness ==
    /\ <<TRUE, TRUE>> \in obs
    /\ lastPending # NoWaker
    /\ state.is_canceled

====
